---- MODULE Spec2Model ----
(***************************************************************************)
(* Model of the download / unzip pipeline of MagicMirror's Tauri backend   *)
(* (src-tauri/src/utils.rs, src-tauri/src/commands.rs).                    *)
(*                                                                         *)
(* The filesystem is a function from absolute paths (sequences of path     *)
(* components) to nodes.  File contents are sequences of small integers    *)
(* ("bytes").  A zip container is a byte sequence: one byte per entry (an  *)
(* index into EntryTable) followed by an end-of-central-directory byte     *)
(* that carries the entry count.                                           *)
(*                                                                         *)
(* Libraries outside the repository are modelled by their documented       *)
(* behaviour: reqwest's send() is Ok for every HTTP status and its body    *)
(* never exceeds a declared Content-Length; the zip crate's enclosed_name  *)
(* is None for rooted names and names whose ".." climb out; an unlinked    *)
(* file stays readable through a handle that was opened before.  The       *)
(* archive index and the entries' bytes are read when ZipArchive::new      *)
(* runs.  Any I/O call that can fail may fail.                             *)
(***************************************************************************)
EXTENDS Integers, Sequences, FiniteSets, TLC

\* ------------------------------------------------------------------ bounds
MaxEntries == 3
MaxChunks == 3
MaxChunkLen == 2
MaxClock == 1

\* the two slots in which the host runs the download_and_unzip command
Inv == {1, 2}

\* ------------------------------------------------------------------- paths
Root == <<>>
TempDir == <<"tmp">>
Targets == {<<"out">>, <<"alt">>}
OldByte == 98
ErrByte == 99
HoleByte == 0
EocdBase == 100

Parent(p) == IF p = <<>> THEN <<>> ELSE SubSeq(p, 1, Len(p) - 1)

IsPrefix(t, p) == Len(t) <= Len(p) /\ SubSeq(p, 1, Len(t)) = t

Node(k, d, w) == [kind |-> k, data |-> d, by |-> w]

Exists(f, p) == p \in DOMAIN f

IsDir(f, p) == p \in DOMAIN f /\ f[p].kind = "dir"

IsFile(f, p) == p \in DOMAIN f /\ f[p].kind = "file"

Put(f, p, n) == [q \in (DOMAIN f) \cup {p} |-> IF q = p THEN n ELSE f[q]]

\* (mutant) the stale directory is kept and extraction merges into it
RemoveDirAll_Keep(f, t) == f

\* fs::remove_dir_all: the directory and everything below it disappear
RemoveDirAll(f, t) == [q \in {x \in DOMAIN f : ~IsPrefix(t, x)} |-> f[q]]

\* (mutant) the file is left where it is
RemoveFile_Leave(f, p) == f

\* std::fs::remove_file
RemoveFile(f, p) == [q \in (DOMAIN f) \ {p} |-> f[q]]

\* resolution of a path by the OS: every component but the last is walked
\* through an existing directory, ".." steps to the parent
RECURSIVE Walk(_, _, _)
Walk(f, cur, comps) ==
    IF comps = <<>> THEN [ok |-> TRUE, path |-> cur]
    ELSE IF ~IsDir(f, cur) THEN [ok |-> FALSE, path |-> cur]
    ELSE Walk(f, IF Head(comps) = ".." THEN Parent(cur) ELSE Append(cur, Head(comps)),
              Tail(comps))

\* Path::exists
PathExists(f, comps) ==
    LET r == Walk(f, Root, comps) IN r.ok /\ Exists(f, r.path)

\* std::fs::create_dir_all: every missing prefix is created, a prefix that is
\* a file makes it fail (what was created before the failure stays)
RECURSIVE MkdirAll(_, _, _, _)
MkdirAll(f, cur, comps, w) ==
    IF comps = <<>> THEN [ok |-> TRUE, fs |-> f]
    ELSE LET c == Head(comps)
             next == IF c = ".." THEN Parent(cur) ELSE Append(cur, c)
         IN IF IsFile(f, next) THEN [ok |-> FALSE, fs |-> f]
            ELSE IF Exists(f, next) THEN MkdirAll(f, next, Tail(comps), w)
            ELSE MkdirAll(Put(f, next, Node("dir", <<>>, w)), next, Tail(comps), w)

CreateDirAll(f, comps, w) == MkdirAll(f, Root, comps, w)

\* (mutant) the output file is created but the entry's bytes are not copied
CreateFile_Empty(f, comps, d, w) ==
    IF comps = <<>> THEN [ok |-> FALSE, fs |-> f]
    ELSE LET par == Walk(f, Root, Parent(comps))
             last == comps[Len(comps)]
             p == Append(par.path, last)
         IN IF ~par.ok \/ ~IsDir(f, par.path) \/ last = ".." \/ IsDir(f, p)
            THEN [ok |-> FALSE, fs |-> f]
            ELSE [ok |-> TRUE, fs |-> Put(f, p, Node("file", <<>>, w))]

\* File::create followed by io::copy of `d`: the parent must resolve to a
\* directory and the last component must not name a directory
CreateFile(f, comps, d, w) ==
    IF comps = <<>> THEN [ok |-> FALSE, fs |-> f]
    ELSE LET par == Walk(f, Root, Parent(comps))
             last == comps[Len(comps)]
             p == Append(par.path, last)
         IN IF ~par.ok \/ ~IsDir(f, par.path) \/ last = ".." \/ IsDir(f, p)
            THEN [ok |-> FALSE, fs |-> f]
            ELSE [ok |-> TRUE, fs |-> Put(f, p, Node("file", d, w))]

\* --------------------------------------------------------------- zip model
\* an entry name: its components, whether it starts with '/', whether it
\* ends with '/'
Name(c, a, d) == [comps |-> c, abs |-> a, dir |-> d]

Entry(n, d) == [name |-> n, data |-> d]

EntryTable ==
    << Entry(Name(<<"a">>, FALSE, FALSE), <<1>>),
       Entry(Name(<<"a">>, FALSE, FALSE), <<2, 2>>),
       Entry(Name(<<"sub">>, FALSE, TRUE), <<>>),
       Entry(Name(<<"sub", "b">>, FALSE, FALSE), <<1>>),
       Entry(Name(<<"..", "x">>, FALSE, FALSE), <<1>>),
       Entry(Name(<<"sub", "..", "a">>, FALSE, FALSE), <<1>>),
       Entry(Name(<<"x">>, TRUE, FALSE), <<2, 2>>),
       Entry(Name(<<"a">>, FALSE, TRUE), <<>>) >>

EntryIds == 1..Len(EntryTable)

\* ZipFile::enclosed_name of the zip crate: None for a name with a root
\* component or one whose ".." components climb above its start
RECURSIVE Depth(_, _)
Depth(comps, d) ==
    IF comps = <<>> THEN d
    ELSE IF Head(comps) = ".."
         THEN (IF d = 0 THEN -1 ELSE Depth(Tail(comps), d - 1))
         ELSE Depth(Tail(comps), d + 1)

\* (mutant) the entry's raw name is used without the enclosure check
enclosed_name_Raw(n) == [some |-> TRUE, path |-> n.comps]

enclosed_name(n) ==
    IF n.abs \/ Depth(n.comps, 0) < 0
    THEN [some |-> FALSE, path |-> <<>>]
    ELSE [some |-> TRUE, path |-> n.comps]

\* the bytes of a zip container holding the entries `ids`
ZipBytes(ids) == Append(ids, EocdBase + Len(ids))

\* (mutant) the end-of-central-directory record is not looked at
ZipArchiveNew_Lenient(bytes) ==
    LET n == Len(bytes)
    IN IF n >= 1
       THEN [ok |-> TRUE, entries |-> SelectSeq(SubSeq(bytes, 1, n - 1),
                                                LAMBDA b : b \in EntryIds)]
       ELSE [ok |-> FALSE, entries |-> <<>>]

\* ZipArchive::new: the last byte must be the end-of-central-directory
\* record for exactly the entries before it
ZipArchiveNew(bytes) ==
    LET n == Len(bytes)
    IN IF n >= 1 /\ bytes[n] = EocdBase + (n - 1)
          /\ \A k \in 1..(n - 1) : bytes[k] \in EntryIds
       THEN [ok |-> TRUE, entries |-> SubSeq(bytes, 1, n - 1)]
       ELSE [ok |-> FALSE, entries |-> <<>>]

\* ------------------------------------------------------------------ values
NoResult == [tag |-> "none", msg |-> "", path |-> <<>>]
Ok(p) == [tag |-> "ok", msg |-> "", path |-> p]
Err(m) == [tag |-> "err", msg |-> m, path |-> <<>>]

\* a progress payload `a / b * 100.0` kept as the exact fraction
Pct(a, b) == [num |-> a * 100, den |-> b]

PctLeq(x, y) == x.num * y.den <= y.num * x.den

Event(kind, p, delivered) == [ev |-> kind, pct |-> p, ok |-> delivered]

\* timestamp() and the join with "{}.zip"
TempName(t) == Append(TempDir, ToString(t) \o ".zip")

\* ------------------------------------------------------------------- state
VARIABLES
    fs,       \* the filesystem: path -> node
    fs0,      \* the filesystem as it was before the first call
    now,      \* the wall clock in milliseconds
    chan,     \* the event channel to the host: "up", "down" or "flaky"
    args,     \* per invocation: entry point, what the server answers, target_dir, file_path
    pc,       \* per invocation: the position in the code
    dl,       \* per invocation: the locals of download_file
    uz,       \* per invocation: the locals of unzip_file
    calls,    \* per invocation: the stages download_and_unzip has started
    emits,    \* per invocation: the app.emit calls made, in order
    result    \* per invocation: what the entry point returned

vars == <<fs, fs0, now, chan, args, pc, dl, uz, calls, emits, result>>

\* an HTTP exchange: whether send() succeeds, the status, the declared
\* Content-Length (-1: none), the body chunks the stream yields and whether
\* the stream then ends with a transport error instead of None
Response(s, st, cl, ch, bad) ==
    [sent |-> s, status |-> st, content_length |-> cl, chunks |-> ch, broken |-> bad]

RECURSIVE Flatten(_)
Flatten(chs) == IF chs = <<>> THEN <<>> ELSE Head(chs) \o Flatten(Tail(chs))

\* (mutant) a missing Content-Length counts as a length of one byte
unwrap_or_1(cl) == IF cl < 0 THEN 1 ELSE cl

\* Option<u64>::unwrap_or(0)
unwrap_or_0(cl) == IF cl < 0 THEN 0 ELSE cl

DlInit == [temp_path |-> <<>>, stream |-> <<>>, broken |-> FALSE, total_size |-> 0,
           downloaded |-> 0, pos |-> 0, live |-> FALSE]

UzInit == [file_path |-> <<>>, open |-> FALSE, live |-> FALSE, snap |-> <<>>,
           archive |-> <<>>, total_files |-> 0, i |-> 0, outpath |-> <<>>]

\* whether an I/O call succeeds: any call that can fail may fail
Outcomes(fallible) == IF fallible THEN {TRUE, FALSE} ELSE {TRUE}

\* what app.emit can return under the channel's condition
EmitOutcomes == IF chan = "up" THEN {TRUE}
                ELSE IF chan = "down" THEN {FALSE}
                ELSE {TRUE, FALSE}

\* write_all at the handle's offset: a gap left by a truncation reads as zeros
RECURSIVE Zeros(_)
Zeros(n) == IF n <= 0 THEN <<>> ELSE <<HoleByte>> \o Zeros(n - 1)

\* (mutant) every write starts at the beginning of the file
WriteAt_Start(data, pos, bytes) ==
    bytes \o SubSeq(data, Len(bytes) + 1, Len(data))

WriteAt(data, pos, bytes) ==
    LET padded == IF Len(data) < pos THEN data \o Zeros(pos - Len(data)) ELSE data
        endp == pos + Len(bytes)
    IN SubSeq(padded, 1, pos) \o bytes \o SubSeq(padded, endp + 1, Len(padded))

\* an unlink detaches the handles that other invocations hold on the file:
\* they keep the inode, the path no longer leads to it
DetachDl(d, paths) ==
    [j \in Inv |-> IF d[j].live /\ d[j].temp_path \in paths
                   THEN [d[j] EXCEPT !.live = FALSE] ELSE d[j]]

DetachUz(u, f, paths) ==
    [j \in Inv |-> IF u[j].open /\ u[j].live /\ u[j].file_path \in paths
                   THEN [u[j] EXCEPT !.live = FALSE,
                                     !.snap = IF IsFile(f, u[j].file_path)
                                              THEN f[u[j].file_path].data ELSE <<>>]
                   ELSE u[j]]

\* ------------------------------------------------------------ the clock
\* only Call reads the clock, so it need not run on once every call was made
Tick ==
    /\ now < MaxClock
    /\ \E i \in Inv : pc[i] = "idle"
    /\ now' = now + 1
    /\ UNCHANGED <<fs, fs0, chan, args, pc, dl, uz, calls, emits, result>>

\* ------------------------------------------------------- entry (commands.rs)
\* the host calls the entry point; download_file computes temp_path first
Call(i) ==
    /\ pc[i] = "idle"
    /\ IF args[i].top = "unzip_file"
       THEN /\ pc' = [pc EXCEPT ![i] = "uz_open"]
            /\ uz' = [uz EXCEPT ![i].file_path = args[i].file_path]
            /\ UNCHANGED <<dl, calls>>
       ELSE /\ pc' = [pc EXCEPT ![i] = "dl_send"]
            /\ dl' = [dl EXCEPT ![i].temp_path = TempName(now)]
            /\ calls' = [calls EXCEPT ![i] = Append(@, "download_file")]
            /\ UNCHANGED uz
    /\ UNCHANGED <<fs, fs0, now, chan, args, emits, result>>

\* (mutant) the Fetcher's error is dropped and the Extractor is started anyway
DlReturn_Continue(i, r) ==
    IF args[i].top = "download_file"
    THEN /\ pc' = [pc EXCEPT ![i] = "done"]
         /\ result' = [result EXCEPT ![i] = r]
         /\ UNCHANGED <<uz, calls>>
    ELSE /\ pc' = [pc EXCEPT ![i] = "uz_open"]
         /\ uz' = [uz EXCEPT ![i].file_path = r.path]
         /\ calls' = [calls EXCEPT ![i] = Append(@, "unzip_file")]
         /\ UNCHANGED result

\* download_file hands `r` back: to the host, or to download_and_unzip whose
\* `?` returns an Err as it is and otherwise goes on to unzip_file
DlReturn(i, r) ==
    IF args[i].top = "download_file" \/ r.tag = "err"
    THEN /\ pc' = [pc EXCEPT ![i] = "done"]
         /\ result' = [result EXCEPT ![i] = r]
         /\ UNCHANGED <<uz, calls>>
    ELSE /\ pc' = [pc EXCEPT ![i] = "uz_open"]
         /\ uz' = [uz EXCEPT ![i].file_path = r.path]
         /\ calls' = [calls EXCEPT ![i] = Append(@, "unzip_file")]
         /\ UNCHANGED result

\* ------------------------------------------------- download_file (utils.rs)
\* (mutant) the temp file is created before the request is sent
DlSend_CreateFirst(i) ==
    /\ pc[i] = "dl_send"
    /\ LET r == args[i].server
       IN \E created \in Outcomes(TRUE) :
          IF ~created \/ ~IsDir(fs, TempDir) \/ IsDir(fs, dl[i].temp_path)
          THEN /\ DlReturn(i, Err("Failed to create temp file"))
               /\ UNCHANGED <<fs, dl>>
          ELSE IF ~r.sent
          THEN /\ fs' = Put(fs, dl[i].temp_path, Node("file", <<>>, i))
               /\ DlReturn(i, Err("Failed to download file"))
               /\ UNCHANGED dl
          ELSE /\ fs' = Put(fs, dl[i].temp_path, Node("file", <<>>, i))
               /\ dl' = [dl EXCEPT ![i].total_size = unwrap_or_0(r.content_length),
                                   ![i].downloaded = 0,
                                   ![i].stream = r.chunks,
                                   ![i].broken = r.broken,
                                   ![i].pos = 0,
                                   ![i].live = TRUE]
               /\ pc' = [pc EXCEPT ![i] = "dl_loop"]
               /\ UNCHANGED <<uz, calls, result>>
    /\ UNCHANGED <<fs0, now, chan, args, emits>>

\* client.get(url).send(), content_length(), File::create
DlSend(i) ==
    /\ pc[i] = "dl_send"
    /\ LET r == args[i].server
       IN IF ~r.sent
          THEN /\ DlReturn(i, Err("Failed to download file"))
               /\ UNCHANGED <<fs, dl>>
          ELSE \E created \in Outcomes(TRUE) :
               IF ~created \/ ~IsDir(fs, TempDir) \/ IsDir(fs, dl[i].temp_path)
               THEN /\ DlReturn(i, Err("Failed to create temp file"))
                    /\ dl' = [dl EXCEPT ![i].total_size = unwrap_or_0(r.content_length)]
                    /\ UNCHANGED fs
               ELSE /\ fs' = Put(fs, dl[i].temp_path, Node("file", <<>>, i))
                    /\ dl' = [dl EXCEPT ![i].total_size = unwrap_or_0(r.content_length),
                                        ![i].downloaded = 0,
                                        ![i].stream = r.chunks,
                                        ![i].broken = r.broken,
                                        ![i].pos = 0,
                                        ![i].live = TRUE]
                    /\ pc' = [pc EXCEPT ![i] = "dl_loop"]
                    /\ UNCHANGED <<uz, calls, result>>
    /\ UNCHANGED <<fs0, now, chan, args, emits>>

\* file.write_all(bytes) through the handle of invocation i
WriteTemp(f, d, i, bytes) ==
    IF d.live /\ IsFile(f, d.temp_path)
    THEN Put(f, d.temp_path, Node("file", WriteAt(f[d.temp_path].data, d.pos, bytes), i))
    ELSE f

\* (mutant) the quotient is taken the wrong way round
DlProgress_Inverted(downloaded, total_size) == Pct(total_size, downloaded)

\* the percentage download_file reports after a chunk
DlProgress(downloaded, total_size) == Pct(downloaded, total_size)

\* one turn of `while let Some(chunk) = stream.next().await`
DlChunk(i) ==
    /\ pc[i] = "dl_loop"
    /\ IF dl[i].stream = <<>>
       THEN /\ DlReturn(i, IF dl[i].broken THEN Err("Failed to read chunk")
                                            ELSE Ok(dl[i].temp_path))
            /\ dl' = [dl EXCEPT ![i].live = FALSE]
            /\ UNCHANGED <<fs, emits>>
       ELSE LET chunk == Head(dl[i].stream)
            IN \E wrote \in Outcomes(chunk # <<>>) :
               IF ~wrote
               THEN \E n \in 0..(Len(chunk) - 1) :
                    /\ fs' = WriteTemp(fs, dl[i], i, SubSeq(chunk, 1, n))
                    /\ DlReturn(i, Err("Failed to write chunk to file"))
                    /\ dl' = [dl EXCEPT ![i].live = FALSE]
                    /\ UNCHANGED emits
               ELSE LET d == dl[i].downloaded + Len(chunk)
                    IN /\ fs' = WriteTemp(fs, dl[i], i, chunk)
                       /\ dl' = [dl EXCEPT ![i].downloaded = d,
                                           ![i].pos = @ + Len(chunk),
                                           ![i].stream = Tail(@)]
                       /\ IF dl[i].total_size > 0
                          THEN \E sent \in EmitOutcomes :
                               emits' = [emits EXCEPT ![i] = Append(@,
                                   Event("download-progress",
                                         DlProgress(d, dl[i].total_size), sent))]
                          ELSE UNCHANGED emits
                       /\ UNCHANGED <<pc, uz, calls, result>>
    /\ UNCHANGED <<fs0, now, chan, args>>

\* ---------------------------------------------------- unzip_file (utils.rs)
\* unzip_file hands `r` back: to the host, or to download_and_unzip whose `?`
\* returns an Err as it is and otherwise goes on to remove the temp file
UzReturn(i, r) ==
    /\ result' = [result EXCEPT ![i] =
                     IF args[i].top = "unzip_file" \/ r.tag = "err" THEN r ELSE @]
    /\ pc' = [pc EXCEPT ![i] =
                     IF args[i].top = "unzip_file" \/ r.tag = "err" THEN "done" ELSE "rm"]

UzClose(u, i) == [u EXCEPT ![i].open = FALSE, ![i].live = FALSE]

\* (mutant) the target directory is removed before the input file is opened
UzOpen_AfterRemove(i) ==
    /\ pc[i] = "uz_open"
    /\ fs' = IF IsDir(fs, args[i].target) THEN RemoveDirAll(fs, args[i].target) ELSE fs
    /\ \E opened \in Outcomes(TRUE) :
       IF ~opened \/ ~IsFile(fs, uz[i].file_path)
       THEN /\ UzReturn(i, Err("Failed to open temp file"))
            /\ UNCHANGED uz
       ELSE /\ uz' = [uz EXCEPT ![i].open = TRUE, ![i].live = TRUE]
            /\ pc' = [pc EXCEPT ![i] = "uz_clear"]
            /\ UNCHANGED result
    /\ UNCHANGED <<fs0, now, chan, args, dl, calls, emits>>

\* File::open(file_path)
UzOpen(i) ==
    /\ pc[i] = "uz_open"
    /\ \E opened \in Outcomes(TRUE) :
       IF ~opened \/ ~IsFile(fs, uz[i].file_path)
       THEN /\ UzReturn(i, Err("Failed to open temp file"))
            /\ UNCHANGED uz
       ELSE /\ uz' = [uz EXCEPT ![i].open = TRUE, ![i].live = TRUE]
            /\ pc' = [pc EXCEPT ![i] = "uz_clear"]
            /\ UNCHANGED result
    /\ UNCHANGED <<fs, fs0, now, chan, args, dl, calls, emits>>

\* (mutant) the target is not cleared while another invocation is working
\* in the same target directory
UzClear_Locked(i) ==
    /\ pc[i] = "uz_clear"
    /\ \A j \in Inv :
         (j # i /\ args[j].target = args[i].target) =>
             pc[j] \notin {"uz_clear", "uz_mkdir", "uz_archive", "uz_entry", "uz_write"}
    /\ LET t == args[i].target
       IN IF ~PathExists(fs, t)
          THEN /\ pc' = [pc EXCEPT ![i] = "uz_mkdir"]
               /\ UNCHANGED <<fs, dl, uz, result>>
          ELSE \E removed \in Outcomes(TRUE) :
               IF ~removed \/ ~IsDir(fs, t)
               THEN /\ UzReturn(i, Err("Failed to remove target directory"))
                    /\ uz' = UzClose(uz, i)
                    /\ UNCHANGED <<fs, dl>>
               ELSE LET gone == {q \in DOMAIN fs : IsPrefix(t, q)}
                    IN /\ fs' = RemoveDirAll(fs, t)
                       /\ dl' = DetachDl(dl, gone)
                       /\ uz' = DetachUz(uz, fs, gone)
                       /\ pc' = [pc EXCEPT ![i] = "uz_mkdir"]
                       /\ UNCHANGED result
    /\ UNCHANGED <<fs0, now, chan, args, calls, emits>>

\* if target_path.exists() { fs::remove_dir_all(target_path) }
UzClear(i) ==
    /\ pc[i] = "uz_clear"
    /\ LET t == args[i].target
       IN IF ~PathExists(fs, t)
          THEN /\ pc' = [pc EXCEPT ![i] = "uz_mkdir"]
               /\ UNCHANGED <<fs, dl, uz, result>>
          ELSE \E removed \in Outcomes(TRUE) :
               IF ~removed \/ ~IsDir(fs, t)
               THEN /\ UzReturn(i, Err("Failed to remove target directory"))
                    /\ uz' = UzClose(uz, i)
                    /\ UNCHANGED <<fs, dl>>
               ELSE LET gone == {q \in DOMAIN fs : IsPrefix(t, q)}
                    IN /\ fs' = RemoveDirAll(fs, t)
                       /\ dl' = DetachDl(dl, gone)
                       /\ uz' = DetachUz(uz, fs, gone)
                       /\ pc' = [pc EXCEPT ![i] = "uz_mkdir"]
                       /\ UNCHANGED result
    /\ UNCHANGED <<fs0, now, chan, args, calls, emits>>

\* create_dir_all(target_path)
UzMkdir(i) ==
    /\ pc[i] = "uz_mkdir"
    /\ \E made \in Outcomes(TRUE) :
       LET r == CreateDirAll(fs, args[i].target, i)
       IN IF ~made
          THEN /\ UzReturn(i, Err("Failed to create target directory"))
               /\ uz' = UzClose(uz, i)
               /\ UNCHANGED fs
          ELSE IF ~r.ok
          THEN /\ UzReturn(i, Err("Failed to create target directory"))
               /\ uz' = UzClose(uz, i)
               /\ fs' = r.fs
          ELSE /\ fs' = r.fs
               /\ pc' = [pc EXCEPT ![i] = "uz_archive"]
               /\ UNCHANGED <<uz, result>>
    /\ UNCHANGED <<fs0, now, chan, args, dl, calls, emits>>

\* the bytes the open handle of unzip_file reads
ArchiveBytes(f, u) ==
    IF ~u.live THEN u.snap
    ELSE IF IsFile(f, u.file_path) THEN f[u.file_path].data ELSE <<>>

\* ZipArchive::new(file), archive.len()
UzArchive(i) ==
    /\ pc[i] = "uz_archive"
    /\ LET a == ZipArchiveNew(ArchiveBytes(fs, uz[i]))
       IN IF ~a.ok
          THEN /\ UzReturn(i, Err("Failed to read zip archive"))
               /\ uz' = UzClose(uz, i)
          ELSE /\ uz' = [uz EXCEPT ![i].archive = a.entries,
                                   ![i].total_files = Len(a.entries),
                                   ![i].i = 0]
               /\ pc' = [pc EXCEPT ![i] = "uz_entry"]
               /\ UNCHANGED result
    /\ UNCHANGED <<fs, fs0, now, chan, args, dl, calls, emits>>

\* (mutant) the percentage counts the entry just finished
UzProgress_Done(k, total_files) == Pct(k + 1, total_files)

\* the percentage unzip_file reports for entry index k
UzProgress(k, total_files) == Pct(k, total_files)

\* (mutant) a failed emit is returned as an error
UzEmitNext_Unwrap(i) ==
    \E sent \in EmitOutcomes :
       /\ emits' = [emits EXCEPT ![i] = Append(@,
              Event("unzip-progress", UzProgress(uz[i].i, uz[i].total_files), sent))]
       /\ IF sent
          THEN pc' = [pc EXCEPT ![i] = "uz_entry"] /\ UNCHANGED result
          ELSE /\ pc' = [pc EXCEPT ![i] = "done"]
               /\ result' = [result EXCEPT ![i] = Err("Failed to emit progress")]

\* app.emit("unzip-progress", progress).unwrap_or_default() and the loop's step
UzEmitNext(i) ==
    /\ \E sent \in EmitOutcomes :
       emits' = [emits EXCEPT ![i] = Append(@,
           Event("unzip-progress", UzProgress(uz[i].i, uz[i].total_files), sent))]
    /\ pc' = [pc EXCEPT ![i] = "uz_entry"]
    /\ UNCHANGED result

\* one turn of `for i in 0..total_files` up to the point where the output
\* file is created: by_index, enclosed_name, the directory or the parent
UzEntry(i) ==
    /\ pc[i] = "uz_entry"
    /\ IF uz[i].i >= uz[i].total_files
       THEN /\ UzReturn(i, Ok(<<>>))
            /\ uz' = UzClose(uz, i)
            /\ UNCHANGED <<fs, emits>>
       ELSE \E readable \in Outcomes(TRUE) :
            LET file == EntryTable[uz[i].archive[uz[i].i + 1]]
                en == enclosed_name(file.name)
                outpath == args[i].target \o en.path
            IN IF ~readable
               THEN /\ UzReturn(i, Err("Failed to read file from zip"))
                    /\ uz' = UzClose(uz, i)
                    /\ UNCHANGED <<fs, emits>>
               ELSE IF ~en.some
               THEN /\ uz' = [uz EXCEPT ![i].i = @ + 1]
                    /\ UNCHANGED <<fs, pc, emits, result>>
               ELSE IF file.name.dir
               THEN \E made \in Outcomes(TRUE) :
                    LET r == CreateDirAll(fs, outpath, i)
                    IN IF ~made \/ ~r.ok
                       THEN /\ UzReturn(i, Err("Failed to create directory"))
                            /\ uz' = UzClose(uz, i)
                            /\ fs' = IF made THEN r.fs ELSE fs
                            /\ UNCHANGED emits
                       ELSE /\ fs' = r.fs
                            /\ UzEmitNext(i)
                            /\ uz' = [uz EXCEPT ![i].i = @ + 1]
               ELSE \E made \in Outcomes(TRUE) :
                    LET p == Parent(outpath)
                        r == IF PathExists(fs, p) THEN [ok |-> TRUE, fs |-> fs]
                             ELSE CreateDirAll(fs, p, i)
                    IN IF (~made /\ ~PathExists(fs, p)) \/ ~r.ok
                       THEN /\ UzReturn(i, Err("Failed to create parent directory"))
                            /\ uz' = UzClose(uz, i)
                            /\ fs' = IF made THEN r.fs ELSE fs
                            /\ UNCHANGED emits
                       ELSE /\ fs' = r.fs
                            /\ uz' = [uz EXCEPT ![i].outpath = outpath]
                            /\ pc' = [pc EXCEPT ![i] = "uz_write"]
                            /\ UNCHANGED <<emits, result>>
    /\ UNCHANGED <<fs0, now, chan, args, dl, calls>>

\* (mutant) the progress event is emitted before the bytes are copied
UzWrite_EmitFirst(i) ==
    /\ pc[i] = "uz_write"
    /\ LET file == EntryTable[uz[i].archive[uz[i].i + 1]]
       IN \E created \in Outcomes(TRUE) :
          LET c == CreateFile(fs, uz[i].outpath, <<>>, i)
          IN IF ~created \/ ~c.ok
             THEN /\ UzReturn(i, Err("Failed to create output file"))
                  /\ uz' = UzClose(uz, i)
                  /\ UNCHANGED <<fs, dl, emits>>
             ELSE \E copied \in Outcomes(file.data # <<>>) :
                  IF ~copied
                  THEN \E n \in 0..(Len(file.data) - 1) :
                       /\ fs' = CreateFile(fs, uz[i].outpath, SubSeq(file.data, 1, n), i).fs
                       /\ UzReturn(i, Err("Failed to copy file content"))
                       /\ uz' = UzClose(uz, i)
                       /\ \E sent \in EmitOutcomes :
                          emits' = [emits EXCEPT ![i] = Append(@,
                              Event("unzip-progress",
                                    UzProgress(uz[i].i, uz[i].total_files), sent))]
                       /\ UNCHANGED dl
                  ELSE /\ fs' = CreateFile(fs, uz[i].outpath, file.data, i).fs
                       /\ UzEmitNext(i)
                       /\ uz' = [uz EXCEPT ![i].i = @ + 1]
                       /\ UNCHANGED dl
    /\ UNCHANGED <<fs0, now, chan, args, calls>>

\* File::create(&outpath), copy(&mut file, &mut outfile), the progress event
UzWrite(i) ==
    /\ pc[i] = "uz_write"
    /\ LET file == EntryTable[uz[i].archive[uz[i].i + 1]]
       IN \E created \in Outcomes(TRUE) :
          LET c == CreateFile(fs, uz[i].outpath, <<>>, i)
          IN IF ~created \/ ~c.ok
             THEN /\ UzReturn(i, Err("Failed to create output file"))
                  /\ uz' = UzClose(uz, i)
                  /\ UNCHANGED <<fs, dl, emits>>
             ELSE \E copied \in Outcomes(file.data # <<>>) :
                  IF ~copied
                  THEN \E n \in 0..(Len(file.data) - 1) :
                       /\ fs' = CreateFile(fs, uz[i].outpath, SubSeq(file.data, 1, n), i).fs
                       /\ UzReturn(i, Err("Failed to copy file content"))
                       /\ uz' = UzClose(uz, i)
                       /\ UNCHANGED <<dl, emits>>
                  ELSE /\ fs' = CreateFile(fs, uz[i].outpath, file.data, i).fs
                       /\ UzEmitNext(i)
                       /\ uz' = [uz EXCEPT ![i].i = @ + 1]
                       /\ UNCHANGED dl
    /\ UNCHANGED <<fs0, now, chan, args, calls>>

\* ---------------------------------------- download_and_unzip (commands.rs)
\* (mutant) the outcome of remove_file is ignored
Rm_Ignore(i) ==
    /\ pc[i] = "rm"
    /\ calls' = [calls EXCEPT ![i] = Append(@, "remove_file")]
    /\ pc' = [pc EXCEPT ![i] = "done"]
    /\ result' = [result EXCEPT ![i] = Ok(<<>>)]
    /\ \E removed \in Outcomes(TRUE) :
       IF ~removed \/ ~IsFile(fs, uz[i].file_path)
       THEN UNCHANGED <<fs, dl, uz>>
       ELSE /\ fs' = RemoveFile(fs, uz[i].file_path)
            /\ dl' = DetachDl(dl, {uz[i].file_path})
            /\ uz' = DetachUz(uz, fs, {uz[i].file_path})
    /\ UNCHANGED <<fs0, now, chan, args, emits>>

\* std::fs::remove_file(&temp_path) and the final Ok(())
Rm(i) ==
    /\ pc[i] = "rm"
    /\ calls' = [calls EXCEPT ![i] = Append(@, "remove_file")]
    /\ pc' = [pc EXCEPT ![i] = "done"]
    /\ \E removed \in Outcomes(TRUE) :
       IF ~removed \/ ~IsFile(fs, uz[i].file_path)
       THEN /\ result' = [result EXCEPT ![i] = Err("Failed to remove temp file")]
            /\ UNCHANGED <<fs, dl, uz>>
       ELSE /\ fs' = RemoveFile(fs, uz[i].file_path)
            /\ dl' = DetachDl(dl, {uz[i].file_path})
            /\ uz' = DetachUz(uz, fs, {uz[i].file_path})
            /\ result' = [result EXCEPT ![i] = Ok(<<>>)]
    /\ UNCHANGED <<fs0, now, chan, args, emits>>

\* ------------------------------------------------------------ initial states
SeqsUpTo(S, n) == UNION {[1..k -> S] : k \in 0..n}

Old(k) == Node(k, IF k = "file" THEN <<OldByte>> ELSE <<>>, 0)

\* the root, the system temp directory and a file next to the targets
BaseFs == (Root :> Old("dir")) @@ (TempDir :> Old("dir")) @@ (<<"x">> :> Old("file"))

\* what may be at a target path before the call
PreKinds == 0..4

TargetPre(t, k) ==
    CASE k = 0 -> << >>
      [] k = 1 -> (t :> Old("dir"))
      [] k = 2 -> (t :> Old("dir")) @@ (Append(t, "keep") :> Old("file"))
      [] k = 3 -> (t :> Old("dir")) @@ (Append(t, "a") :> Old("file"))
                  @@ (Append(t, "sub") :> Old("dir"))
                  @@ (t \o <<"sub", "b">> :> Old("file"))
      [] k = 4 -> (t :> Old("file"))

NoResponse == Response(FALSE, 0, -1, <<>>, FALSE)

NoArgs == [top |-> "none", server |-> NoResponse, target |-> <<>>, file_path |-> <<>>]

\* what the servers of the command's URLs may answer
CmdResponses ==
    { Response(FALSE, 0, -1, <<>>, FALSE),
      Response(TRUE, 200, 3, << <<1>>, <<4, 102>> >>, FALSE),
      Response(TRUE, 200, -1, << <<2>>, <<101>> >>, FALSE),
      Response(TRUE, 404, 1, << <<ErrByte>> >>, FALSE) }

\* two download_and_unzip commands that the host may run concurrently
Init ==
    /\ now = 0
    /\ chan \in {"up", "down"}
    /\ args \in [Inv -> [top : {"download_and_unzip"}, server : CmdResponses,
                         target : Targets, file_path : {<<>>}]]
    /\ fs = BaseFs @@ TargetPre(<<"out">>, 3) @@ TargetPre(<<"alt">>, 0)
    /\ fs0 = fs
    /\ pc = [i \in Inv |-> "idle"]
    /\ dl = [i \in Inv |-> DlInit]
    /\ uz = [i \in Inv |-> UzInit]
    /\ calls = [i \in Inv |-> <<>>]
    /\ emits = [i \in Inv |-> <<>>]
    /\ result = [i \in Inv |-> NoResult]

Step(i) ==
    \/ Call(i)
    \/ DlSend(i)
    \/ DlChunk(i)
    \/ UzOpen(i)
    \/ UzClear(i)
    \/ UzMkdir(i)
    \/ UzArchive(i)
    \/ UzEntry(i)
    \/ UzWrite(i)
    \/ Rm(i)

Next == Tick \/ \E i \in Inv : Step(i)

Spec == Init /\ [][Next]_vars

\* ------------------------------------------- a single call of unzip_file
UnzipInputs ==
    {ZipBytes(ids) : ids \in SeqsUpTo(EntryIds, MaxEntries)} \cup {<<ErrByte>>, <<>>}

InitUnzip ==
    /\ now = 0
    /\ chan \in {"up", "down", "flaky"}
    /\ args = [i \in Inv |-> IF i = 1
                 THEN [top |-> "unzip_file", server |-> NoResponse,
                       target |-> <<"out">>, file_path |-> TempName(0)]
                 ELSE NoArgs]
    /\ \E k \in PreKinds :
       \/ fs = BaseFs @@ TargetPre(<<"out">>, k)
       \/ \E bytes \in UnzipInputs :
          fs = BaseFs @@ TargetPre(<<"out">>, k) @@ (TempName(0) :> Node("file", bytes, 0))
    /\ fs0 = fs
    /\ pc = [i \in Inv |-> IF i = 1 THEN "idle" ELSE "done"]
    /\ dl = [i \in Inv |-> DlInit]
    /\ uz = [i \in Inv |-> UzInit]
    /\ calls = [i \in Inv |-> <<>>]
    /\ emits = [i \in Inv |-> <<>>]
    /\ result = [i \in Inv |-> NoResult]

NextUnzip ==
    \E i \in Inv : \/ Call(i)
                   \/ UzOpen(i)
                   \/ UzClear(i)
                   \/ UzMkdir(i)
                   \/ UzArchive(i)
                   \/ UzEntry(i)
                   \/ UzWrite(i)

SpecUnzip == InitUnzip /\ [][NextUnzip]_vars

\* ----------------------------------------- a single call of download_file
\* chunk k of a body is made of bytes k
RECURSIVE Rep(_, _)
Rep(b, n) == IF n <= 0 THEN <<>> ELSE <<b>> \o Rep(b, n - 1)

Body(lens) == [k \in 1..Len(lens) |-> Rep(k, lens[k])]

\* the transport delivers at most the declared length and fails a body that
\* ends short of it
Framed(r) ==
    r.content_length >= 0 =>
        /\ Len(Flatten(r.chunks)) <= r.content_length
        /\ (Len(Flatten(r.chunks)) < r.content_length => r.broken)

DlResponses ==
    {Response(FALSE, 0, -1, <<>>, FALSE)} \cup
    {r \in {Response(TRUE, st, cl, Body(lens), bad) :
              st \in {200, 404},
              cl \in -1..(MaxChunks * MaxChunkLen + 1),
              lens \in SeqsUpTo(0..MaxChunkLen, MaxChunks),
              bad \in BOOLEAN} : Framed(r)}

InitDownload ==
    /\ now = 0
    /\ chan \in {"up", "down", "flaky"}
    /\ args \in {[i \in Inv |-> IF i = 1
                    THEN [top |-> "download_file", server |-> r,
                          target |-> <<>>, file_path |-> <<>>]
                    ELSE NoArgs] : r \in DlResponses}
    /\ \/ fs = BaseFs
       \/ fs = BaseFs @@ (TempName(0) :> Old("file"))
    /\ fs0 = fs
    /\ pc = [i \in Inv |-> IF i = 1 THEN "idle" ELSE "done"]
    /\ dl = [i \in Inv |-> DlInit]
    /\ uz = [i \in Inv |-> UzInit]
    /\ calls = [i \in Inv |-> <<>>]
    /\ emits = [i \in Inv |-> <<>>]
    /\ result = [i \in Inv |-> NoResult]

NextDownload ==
    \E i \in Inv : \/ Call(i)
                   \/ DlSend(i)
                   \/ DlChunk(i)

SpecDownload == InitDownload /\ [][NextDownload]_vars

\* ================================================================== claims
Range(q) == {q[k] : k \in DOMAIN q}

\* the paths at or below t that exist in f
Below(f, t) == {p \in DOMAIN f : IsPrefix(t, p)}

\* f and g agree on everything at or below t
SameBelow(f, g, t) == Below(f, t) = Below(g, t) /\ \A p \in Below(f, t) : f[p] = g[p]

Cmd(i) == args[i].top = "download_and_unzip"

HttpError(i) == Cmd(i) /\ args[i].server.sent /\ args[i].server.status >= 400

\* C1: when the server answers the GET with an HTTP error status,
\* download_and_unzip fails without ever reaching the Extractor, and nothing
\* at or below the target directory is touched by that invocation.
C1_HttpErrorLeavesTarget ==
    \A i \in Inv : HttpError(i) =>
        /\ "unzip_file" \notin Range(calls[i])
        /\ (pc[i] = "done" => result[i].tag = "err")
        /\ ((\A j \in Inv : j # i => pc[j] = "idle") =>
               SameBelow(fs, fs0, args[i].target))

\* C2: when a single unzip_file call returns success, nothing that existed at
\* or below the target before the call is still there: every node below the
\* target was created by this call.
C2_FullReplace ==
    (args[1].top = "unzip_file" /\ result[1].tag = "ok") =>
        \A p \in Below(fs, args[1].target) : fs[p].by = 1

\* a successful extraction over a target that held unrelated files and
\* directories
C2_Witness ==
    /\ args[1].top = "unzip_file" /\ result[1].tag = "ok"
    /\ uz[1].total_files >= 1
    /\ Cardinality(Below(fs0, args[1].target)) >= 4
    /\ Cardinality(Below(fs, args[1].target)) >= 2

Unsafe(id) == ~enclosed_name(EntryTable[id].name).some

\* the entry that the loop of unzip_file is at has a name that encloses
AtUnsafeEntry(i) ==
    /\ pc[i] = "uz_entry"
    /\ uz[i].i < uz[i].total_files
    /\ Unsafe(uz[i].archive[uz[i].i + 1])

\* invocation i takes a step
Moves(i) == pc'[i] # pc[i] \/ uz'[i] # uz[i] \/ dl'[i] # dl[i]

\* C3: everything unzip_file creates or writes lies at or below the target
\* directory; the turn of the loop for an entry without a safe path writes
\* nothing and goes on to the next entry without failing (the only way it
\* ends the extraction is the entry being unreadable).
C3_Contained ==
    /\ [](args[1].top = "unzip_file" =>
            \A p \in DOMAIN fs : fs[p].by = 1 => IsPrefix(args[1].target, p))
    /\ [][(args[1].top = "unzip_file" /\ AtUnsafeEntry(1) /\ Moves(1)) =>
            /\ fs' = fs
            /\ \/ /\ pc'[1] = "uz_entry" /\ uz'[1].i = uz[1].i + 1
                  /\ result' = result /\ emits' = emits
               \/ result'[1] = Err("Failed to read file from zip")]_vars

\* an extraction that succeeded over an archive with an unsafe entry followed
\* by a file entry, which was written
C3_Witness ==
    /\ args[1].top = "unzip_file" /\ result[1].tag = "ok"
    /\ \E k \in 1..(uz[1].total_files - 1) :
         /\ Unsafe(uz[1].archive[k])
         /\ ~Unsafe(uz[1].archive[k + 1])
         /\ ~EntryTable[uz[1].archive[k + 1]].name.dir
    /\ \E p \in Below(fs, args[1].target) : fs[p].kind = "file" /\ fs[p].by = 1
    /\ fs[<<"x">>] = fs0[<<"x">>]

\* the path an enclosed name leads to from t
RECURSIVE Norm(_, _)
Norm(comps, acc) ==
    IF comps = <<>> THEN acc
    ELSE Norm(Tail(comps), IF Head(comps) = ".." THEN Parent(acc) ELSE Append(acc, Head(comps)))

EntryPath(t, id) == t \o Norm(EntryTable[id].name.comps, <<>>)

IsDirEntry(id) == EntryTable[id].name.dir

\* entry k of the archive of invocation i is where it should be
EntryPresent(i, k) ==
    LET id == uz[i].archive[k]
        p == EntryPath(args[i].target, id)
    IN IF IsDirEntry(id) THEN IsDir(fs, p)
       ELSE IsFile(fs, p) /\ fs[p].data = EntryTable[id].data

\* a later file entry of the archive is written to the path of entry k
Overwritten(i, k) ==
    \E j \in (k + 1)..uz[i].total_files :
        /\ ~Unsafe(uz[i].archive[j]) /\ ~IsDirEntry(uz[i].archive[j])
        /\ EntryPath(args[i].target, uz[i].archive[j])
             = EntryPath(args[i].target, uz[i].archive[k])

\* C4 (as claimed): after a successful unzip_file every file entry (that has
\* a path under the target) exists there with the entry's bytes and every
\* directory entry exists as a directory, also when several entries map to
\* the same path.
C4_AllEntriesPresent ==
    (args[1].top = "unzip_file" /\ result[1].tag = "ok") =>
        \A k \in 1..uz[1].total_files :
            ~Unsafe(uz[1].archive[k]) => EntryPresent(1, k)

\* C4 (amended): after a successful unzip_file every directory entry with a
\* safe name exists as a directory, and every file entry with a safe name
\* that no later file entry of the archive maps to the same path exists with
\* the entry's bytes (of entries sharing a path the last one wins).
C4_LastEntryWins ==
    (args[1].top = "unzip_file" /\ result[1].tag = "ok") =>
        \A k \in 1..uz[1].total_files :
            (~Unsafe(uz[1].archive[k]) /\ ~Overwritten(1, k)) => EntryPresent(1, k)

\* a successful extraction of an archive in which two file entries with
\* different bytes share a path
C4_Witness ==
    /\ args[1].top = "unzip_file" /\ result[1].tag = "ok"
    /\ \E k \in 1..uz[1].total_files :
         /\ ~Unsafe(uz[1].archive[k]) /\ Overwritten(1, k)
         /\ ~EntryPresent(1, k)
    /\ \E k \in 1..uz[1].total_files :
         /\ ~Unsafe(uz[1].archive[k]) /\ ~IsDirEntry(uz[1].archive[k])
         /\ ~Overwritten(1, k) /\ EntryPresent(1, k)

\* the positions of an invocation inside download_file and inside unzip_file
DlPcs == {"dl_send", "dl_loop"}
UzPcs == {"uz_open", "uz_clear", "uz_mkdir", "uz_archive", "uz_entry", "uz_write"}

FetcherErrors ==
    {"Failed to download file", "Failed to create temp file",
     "Failed to read chunk", "Failed to write chunk to file"}

ExtractorErrors ==
    {"Failed to open temp file", "Failed to remove target directory",
     "Failed to create target directory", "Failed to read zip archive",
     "Failed to read file from zip", "Failed to create directory",
     "Failed to create parent directory", "Failed to create output file",
     "Failed to copy file content"}

Stages == <<"download_file", "unzip_file", "remove_file">>

\* C5: download_and_unzip runs fetch, extract, delete in this order and stops
\* at the first failure: the Extractor is started only with the path the
\* Fetcher returned, remove_file is attempted only after the Extractor went
\* through all entries and returned Ok, and a stage's error becomes the
\* command's result as it is, with no later stage started.
C5_StagesInOrder ==
    /\ [](\A i \in Inv : Cmd(i) =>
            /\ \E n \in 0..3 : calls[i] = SubSeq(Stages, 1, n)
            /\ (pc[i] \in DlPcs => calls[i] = SubSeq(Stages, 1, 1))
            /\ (pc[i] \in UzPcs => calls[i] = SubSeq(Stages, 1, 2))
            /\ ("unzip_file" \in Range(calls[i]) =>
                  /\ uz[i].file_path = dl[i].temp_path
                  /\ dl[i].stream = <<>> /\ ~dl[i].broken)
            /\ ("remove_file" \in Range(calls[i]) \/ pc[i] = "rm" =>
                  /\ uz[i].i = uz[i].total_files
                  /\ uz[i].total_files = Len(uz[i].archive))
            /\ (result[i].tag = "err" /\ result[i].msg \in FetcherErrors =>
                  calls[i] = SubSeq(Stages, 1, 1))
            /\ (result[i].tag = "err" /\ result[i].msg \in ExtractorErrors =>
                  calls[i] = SubSeq(Stages, 1, 2)))
    /\ [][\A i \in Inv : Cmd(i) =>
            /\ (pc[i] \in DlPcs /\ pc'[i] \notin DlPcs =>
                  \/ pc'[i] = "uz_open" /\ result'[i] = NoResult
                  \/ /\ pc'[i] = "done" /\ result'[i].tag = "err"
                     /\ result'[i].msg \in FetcherErrors /\ calls'[i] = calls[i])
            /\ (pc[i] \in UzPcs /\ pc'[i] \notin UzPcs =>
                  \/ pc'[i] = "rm" /\ result'[i] = NoResult
                  \/ /\ pc'[i] = "done" /\ result'[i].tag = "err"
                     /\ result'[i].msg \in ExtractorErrors /\ calls'[i] = calls[i])]_vars

\* one command went through all three stages, another one stopped after the
\* Extractor failed
C5_Witness ==
    \E i, j \in Inv :
        /\ Cmd(i) /\ result[i].tag = "ok" /\ calls[i] = Stages
        /\ Cmd(j) /\ result[j] = Err("Failed to read zip archive")
        /\ calls[j] = SubSeq(Stages, 1, 2)

\* the target of invocation i holds what the archive it read puts there
TargetHolds(i) ==
    /\ IsDir(fs, args[i].target)
    /\ \A k \in 1..uz[i].total_files :
         (~Unsafe(uz[i].archive[k]) /\ ~Overwritten(i, k)) => EntryPresent(i, k)

\* invocation i returns Ok(()) in this step
ReturnsOk(i) == Cmd(i) /\ result[i].tag # "ok" /\ result'[i].tag = "ok"

\* C6 (as claimed): whenever download_and_unzip returns success, the temp
\* archive of that invocation no longer exists on disk and the target
\* directory holds the extracted archive contents.
C6_SuccessCleansUp ==
    [][\A i \in Inv : ReturnsOk(i) =>
          /\ ~Exists(fs', uz[i].file_path)
          /\ TargetHolds(i)']_vars

\* no other invocation was pointed at the target directory of invocation i
AloneOnTarget(i) == \A j \in Inv : j # i => args[j].target # args[i].target

\* C6 (amended): whenever download_and_unzip returns success, the temp
\* archive of that invocation no longer exists on disk, and the target
\* directory holds the extracted archive contents provided no other
\* invocation was pointed at the same target directory.
C6_SuccessCleansUpAlone ==
    [][\A i \in Inv : ReturnsOk(i) =>
          /\ ~Exists(fs', uz[i].file_path)
          /\ (AloneOnTarget(i) => TargetHolds(i)')]_vars

\* a command has returned Ok(()), its temp archive is gone and its target
\* holds the files of its non-empty archive
C6_Witness ==
    \E i \in Inv :
        /\ Cmd(i) /\ result[i].tag = "ok" /\ AloneOnTarget(i)
        /\ ~Exists(fs, uz[i].file_path)
        /\ uz[i].total_files >= 2 /\ TargetHolds(i)
        /\ \E p \in Below(fs, args[i].target) : fs[p].kind = "file" /\ fs[p].by = i

\* invocation i attempts remove_file in this step and the file is not removed
RemoveFails(i) ==
    /\ Cmd(i) /\ pc[i] = "rm" /\ pc'[i] = "done"
    /\ ~(IsFile(fs, uz[i].file_path) /\ ~Exists(fs', uz[i].file_path))

\* C7 (as claimed): if the Fetcher and the Extractor succeeded and deleting
\* the temp archive fails, download_and_unzip returns an error, the failed
\* cleanup changes nothing on disk and the target directory still holds the
\* completely extracted archive contents.
C7_CleanupFailureReported ==
    [][\A i \in Inv : RemoveFails(i) =>
          /\ result'[i] = Err("Failed to remove temp file")
          /\ fs' = fs
          /\ TargetHolds(i)']_vars

\* C7 (amended): if the Fetcher and the Extractor succeeded and deleting the
\* temp archive fails, download_and_unzip returns an error and the failed
\* cleanup changes nothing on disk; the target directory still holds the
\* completely extracted archive contents provided no other invocation was
\* pointed at the same target directory.
C7_CleanupFailureReportedAlone ==
    [][\A i \in Inv : RemoveFails(i) =>
          /\ result'[i] = Err("Failed to remove temp file")
          /\ fs' = fs
          /\ (AloneOnTarget(i) => TargetHolds(i)')]_vars

\* a command whose two stages succeeded has returned the cleanup error; its
\* temp archive is still on disk and its target holds the extracted files
C7_Witness ==
    \E i \in Inv :
        /\ Cmd(i) /\ result[i] = Err("Failed to remove temp file")
        /\ calls[i] = Stages /\ AloneOnTarget(i)
        /\ IsFile(fs, uz[i].file_path)
        /\ uz[i].total_files >= 2 /\ TargetHolds(i)
        /\ \E p \in Below(fs, args[i].target) : fs[p].kind = "file" /\ fs[p].by = i

\* C8: two download_and_unzip invocations with different target directories
\* use distinct temp archive files.
C8_DistinctTempFiles ==
    \A i, j \in Inv :
        (/\ i # j /\ Cmd(i) /\ Cmd(j)
         /\ args[i].target # args[j].target
         /\ pc[i] # "idle" /\ pc[j] # "idle")
        => dl[i].temp_path # dl[j].temp_path

\* the download-progress payloads invocation i has emitted, in order
DlEvents(i) == SelectSeq(emits[i], LAMBDA e : e.ev = "download-progress")

PctEq(x, y) == PctLeq(x, y) /\ PctLeq(y, x)

\* C9: within one download_file call whose response declares a content
\* length greater than zero, the emitted download-progress percentages are
\* non-decreasing and every one of them lies in [0, 100].
C9_DownloadProgressMonotone ==
    args[1].top = "download_file" =>
        LET ev == DlEvents(1)
        IN /\ (ev # <<>> => args[1].server.content_length > 0)
           /\ \A k \in 1..Len(ev) :
                /\ ev[k].pct.den > 0
                /\ 0 <= ev[k].pct.num
                /\ ev[k].pct.num <= 100 * ev[k].pct.den
           /\ \A k \in 1..(Len(ev) - 1) : PctLeq(ev[k].pct, ev[k + 1].pct)

\* a finished download of three chunks with a declared length: the progress
\* rose, stayed where it was over an empty chunk, and ended at 100
C9_Witness ==
    /\ args[1].top = "download_file" /\ result[1].tag = "ok"
    /\ args[1].server.content_length > 0
    /\ LET ev == DlEvents(1)
       IN /\ Len(ev) = 3
          /\ ~PctLeq(ev[3].pct, ev[1].pct)
          /\ \E k \in 1..2 : PctEq(ev[k].pct, ev[k + 1].pct)
          /\ ev[3].pct.num = 100 * ev[3].pct.den

\* C10: when the response declares no content length, or declares zero,
\* download_file emits no download-progress event, and the download is not
\* failed for it: when it returns Ok the file holds all chunks.
C10_NoLengthNoProgress ==
    (args[1].top = "download_file" /\ args[1].server.content_length <= 0) =>
        /\ emits[1] = <<>>
        /\ (result[1].tag = "ok" =>
              /\ IsFile(fs, result[1].path)
              /\ fs[result[1].path].data = Flatten(args[1].server.chunks))

\* a download without a declared length has succeeded: several chunks were
\* written and no event was emitted
C10_Witness ==
    /\ args[1].top = "download_file" /\ args[1].server.content_length < 0
    /\ result[1].tag = "ok"
    /\ Len(args[1].server.chunks) >= 2
    /\ Len(Flatten(args[1].server.chunks)) >= 3
    /\ fs[result[1].path].data = Flatten(args[1].server.chunks)
    /\ emits[1] = <<>>

\* the unzip-progress payloads invocation i has emitted, in order
UzEvents(i) == SelectSeq(emits[i], LAMBDA e : e.ev = "unzip-progress")

\* C11: in an unzip_file run over an archive of n entries that returns
\* success, exactly one unzip-progress event was emitted per entry index
\* 0..n-1, in index order, the one for index k carrying k / n * 100.
C11_OneEventPerEntry ==
    (args[1].top = "unzip_file" /\ result[1].tag = "ok") =>
        LET ev == UzEvents(1)
            n == uz[1].total_files
        IN /\ Len(ev) = n
           /\ \A k \in 1..Len(ev) : ev[k].pct = Pct(k - 1, n)

\* the response chunks download_file has taken from the stream so far
Consumed(i) ==
    SubSeq(args[i].server.chunks, 1, Len(args[i].server.chunks) - Len(dl[i].stream))

\* C12: when download_file returns a path, the file there holds exactly the
\* response chunks in arrival order and `downloaded` is the file's length;
\* while the loop runs, the file holds exactly the chunks read so far.
C12_FileIsBody ==
    args[1].top = "download_file" =>
        /\ (pc[1] = "dl_loop" =>
              /\ IsFile(fs, dl[1].temp_path)
              /\ fs[dl[1].temp_path].data = Flatten(Consumed(1))
              /\ dl[1].downloaded = Len(fs[dl[1].temp_path].data))
        /\ (result[1].tag = "ok" =>
              /\ result[1].path = dl[1].temp_path
              /\ IsFile(fs, result[1].path)
              /\ fs[result[1].path].data = Flatten(args[1].server.chunks)
              /\ dl[1].downloaded = Len(fs[result[1].path].data))

\* download_file has returned the path of a file made of three chunks of
\* different bytes, written over a file that was there before
C12_Witness ==
    /\ args[1].top = "download_file" /\ result[1].tag = "ok"
    /\ Len(args[1].server.chunks) = 3
    /\ \A k \in 1..3 : args[1].server.chunks[k] # <<>>
    /\ IsFile(fs0, result[1].path)
    /\ fs[result[1].path].data = Flatten(args[1].server.chunks)
    /\ dl[1].downloaded >= 4

\* the Extractor of invocation i returns an error in this step
ExtractorFails(i) ==
    /\ Cmd(i) /\ pc[i] \in UzPcs
    /\ pc'[i] = "done" /\ result'[i].tag = "err"

\* C13: when the Extractor fails inside download_and_unzip and the target
\* directory does not contain the temp file, that invocation never calls
\* remove_file and the temp archive it downloaded still exists on disk when
\* the error is returned.
C13_TempLeakedOnFailure ==
    [][\A i \in Inv :
         (ExtractorFails(i) /\ ~IsPrefix(args[i].target, uz[i].file_path)) =>
            /\ "remove_file" \notin Range(calls'[i])
            /\ IsFile(fs', uz[i].file_path)]_vars

\* C13, leaving aside invocations that share their temp path with another
C13_TempLeakedUnlessShared ==
    [][\A i \in Inv :
         (/\ ExtractorFails(i)
          /\ \A j \in Inv : j # i => dl[j].temp_path # dl[i].temp_path) =>
            /\ "remove_file" \notin Range(calls'[i])
            /\ IsFile(fs', uz[i].file_path)]_vars

EntryErrors ==
    {"Failed to read file from zip", "Failed to create directory",
     "Failed to create parent directory", "Failed to create output file",
     "Failed to copy file content"}

\* unzip_file (invocation i) fails in this step while processing an entry
EntryFails(i) ==
    /\ pc[i] \in {"uz_entry", "uz_write"}
    /\ pc'[i] = "done" /\ result'[i].tag = "err"

\* every unzip-progress event of invocation i in log q is for an index below k
EventsBelow(q, i, k) ==
    \A e \in Range(q[i]) :
        e.ev = "unzip-progress" => (e.pct.den = uz[i].total_files /\ e.pct.num < k * 100)

\* what a failing entry step of invocation i does apart from the filesystem:
\* an entry error is returned at once, the index stays at the failed entry
\* and no event is emitted for it or any later index
AbortsAtEntry(i) ==
    /\ result'[i].msg \in EntryErrors
    /\ uz'[i].i = uz[i].i /\ uz[i].i < uz[i].total_files
    /\ emits' = emits
    /\ EventsBelow(emits', i, uz[i].i)

\* C14 (as claimed): if processing entry k fails, unzip_file aborts at once
\* with an error, everything written under the target for entries 0..k-1
\* remains as it was, no later entry is read or written and no
\* unzip-progress event is emitted for index k or later.
C14_AbortKeepsEarlier ==
    [][EntryFails(1) =>
         /\ AbortsAtEntry(1)
         /\ \A p \in Below(fs, args[1].target) :
              Exists(fs', p) /\ fs'[p] = fs[p]]_vars

\* C14 (amended): as above, except that the file at the path of the failed
\* entry k itself, which an earlier entry may have written, can be left
\* truncated or partly overwritten with the bytes of entry k.
C14_AbortKeepsOtherPaths ==
    [][EntryFails(1) =>
         /\ AbortsAtEntry(1)
         /\ \A p \in Below(fs, args[1].target) :
              /\ Exists(fs', p)
              /\ \/ fs'[p] = fs[p]
                 \/ /\ pc[1] = "uz_write"
                    /\ p = EntryPath(args[1].target, uz[1].archive[uz[1].i + 1])
                    /\ IsFile(fs', p)
                    /\ \E n \in 0..(Len(EntryTable[uz[1].archive[uz[1].i + 1]].data) - 1) :
                         fs'[p].data = SubSeq(EntryTable[uz[1].archive[uz[1].i + 1]].data, 1, n)]_vars

\* unzip_file failed copying the second of three entries: the first entry's
\* file is in place, the failed entry's file is partly written, one event
\* was emitted and the third entry was never reached
C14_Witness ==
    /\ args[1].top = "unzip_file"
    /\ result[1] = Err("Failed to copy file content")
    /\ uz[1].total_files = 3 /\ uz[1].i = 1
    /\ EntryPresent(1, 1)
    /\ Len(UzEvents(1)) = 1
    /\ IsFile(fs, uz[1].outpath) /\ Len(fs[uz[1].outpath].data) = 1
    /\ ~Unsafe(uz[1].archive[3])
    /\ ~Exists(fs, EntryPath(args[1].target, uz[1].archive[3]))

\* download_file (invocation i) fails in this step, in its chunk loop
DlFailsInLoop(i) ==
    /\ args[i].top = "download_file" /\ pc[i] = "dl_loop"
    /\ pc'[i] = "done" /\ result'[i].tag = "err"

\* download_file (invocation i) fails in this step, at the request or at
\* File::create
DlFailsEarly(i) ==
    /\ args[i].top = "download_file" /\ pc[i] = "dl_send"
    /\ pc'[i] = "done" /\ result'[i].tag = "err"

\* C15 (as claimed): a download_file that fails after the temp file was
\* created leaves that file on disk holding exactly the chunks written so
\* far; one that fails at the request or at file creation leaves the disk
\* as it was.
C15_FailureLeavesWholeChunks ==
    [][/\ DlFailsInLoop(1) =>
            /\ result'[1].msg \in {"Failed to read chunk", "Failed to write chunk to file"}
            /\ IsFile(fs', dl[1].temp_path)
            /\ fs'[dl[1].temp_path].data = Flatten(Consumed(1))
       /\ DlFailsEarly(1) =>
            /\ result'[1].msg \in {"Failed to download file", "Failed to create temp file"}
            /\ fs' = fs]_vars

\* C15 (amended): as above, except that after a failed chunk write the file
\* may also hold a leading part of the chunk whose write failed.
C15_FailureLeavesChunksAndPart ==
    [][/\ DlFailsInLoop(1) =>
            /\ IsFile(fs', dl[1].temp_path)
            /\ \/ /\ result'[1].msg = "Failed to read chunk"
                  /\ fs'[dl[1].temp_path].data = Flatten(Consumed(1))
               \/ /\ result'[1].msg = "Failed to write chunk to file"
                  /\ dl[1].stream # <<>>
                  /\ \E n \in 0..(Len(Head(dl[1].stream)) - 1) :
                       fs'[dl[1].temp_path].data =
                           Flatten(Consumed(1)) \o SubSeq(Head(dl[1].stream), 1, n)
       /\ DlFailsEarly(1) =>
            /\ result'[1].msg \in {"Failed to download file", "Failed to create temp file"}
            /\ fs' = fs]_vars

\* download_file failed writing its second chunk: the temp file holds the
\* first chunk and the first byte of the second
C15_Witness ==
    /\ args[1].top = "download_file"
    /\ result[1] = Err("Failed to write chunk to file")
    /\ Len(dl[1].stream) = 1 /\ Len(args[1].server.chunks) = 2
    /\ Len(Head(dl[1].stream)) = 2
    /\ IsFile(fs, dl[1].temp_path)
    /\ fs[dl[1].temp_path].data =
           Flatten(Consumed(1)) \o SubSeq(Head(dl[1].stream), 1, 1)
    /\ Consumed(1) # <<>> /\ Flatten(Consumed(1)) # <<>>

\* invocation j is between its destroy step and the end of its extraction
Extracting(j) == Cmd(j) /\ pc[j] \in {"uz_mkdir", "uz_archive", "uz_entry", "uz_write"}

\* C16: two download_and_unzip invocations on the same target directory are
\* not guarded against each other: whenever one of them is about to clear
\* the target while the other is extracting into it, the clearing step can
\* be taken and removes the whole directory, with all the other has written.
C16_Unguarded ==
    \A i, j \in Inv :
        (/\ i # j /\ Cmd(i) /\ Extracting(j)
         /\ args[i].target = args[j].target
         /\ pc[i] = "uz_clear" /\ IsDir(fs, args[i].target)) =>
            ENABLED (UzClear(i) /\ fs' = RemoveDirAll(fs, args[i].target))

\* an invocation has returned success although the other invocation's
\* destroy step has removed entries it had extracted, and the target now
\* holds what the other one wrote
C16_Witness ==
    \E i, j \in Inv :
        /\ i # j /\ Cmd(i) /\ Cmd(j) /\ args[i].target = args[j].target
        /\ result[i].tag = "ok" /\ uz[i].total_files >= 1
        /\ ~TargetHolds(i)
        /\ \E k \in 1..uz[i].total_files :
             ~Unsafe(uz[i].archive[k]) /\ ~Exists(fs, EntryPath(args[i].target, uz[i].archive[k]))
        /\ \E p \in Below(fs, args[i].target) : p # args[i].target /\ fs[p].by = j

\* an invocation has failed to create an output file whose parent directory
\* it had made: the other invocation removed it in between
C16_RemovedUnderneath ==
    \E i, j \in Inv :
        /\ i # j /\ Cmd(i) /\ Cmd(j) /\ args[i].target = args[j].target
        /\ result[i] = Err("Failed to create output file")
        /\ uz[i].outpath # <<>>
        /\ ~Exists(fs, Parent(uz[i].outpath))

\* C17: within one unzip_file run over n entries every emitted
\* unzip-progress value is index / n * 100 for an entry index below n, hence
\* in [0,100) and never 100, and the values are strictly increasing; after a
\* successful run the event of entry 0 carries 0 and the event of the last
\* entry carries (n-1)/n*100.
C17_UnzipProgressBelow100 ==
    args[1].top = "unzip_file" =>
        LET ev == UzEvents(1)
            n == uz[1].total_files
        IN /\ \A k \in 1..Len(ev) :
                /\ ev[k].pct.den = n /\ n > 0
                /\ 0 <= ev[k].pct.num /\ ev[k].pct.num < 100 * ev[k].pct.den
                /\ \E idx \in 0..(n - 1) :
                     ev[k].pct = Pct(idx, n) /\ ~Unsafe(uz[1].archive[idx + 1])
                /\ k > 1 => ev[k - 1].pct.num < ev[k].pct.num
           /\ (result[1].tag = "ok" /\ n >= 1) =>
                /\ ~Unsafe(uz[1].archive[1]) => (ev # <<>> /\ ev[1].pct = Pct(0, n))
                /\ ~Unsafe(uz[1].archive[n]) =>
                      (ev # <<>> /\ ev[Len(ev)].pct = Pct(n - 1, n))

\* a successful run over three entries has emitted 0, 1/3 and 2/3 of 100
C17_Witness ==
    /\ args[1].top = "unzip_file" /\ result[1].tag = "ok"
    /\ uz[1].total_files = 3
    /\ Len(UzEvents(1)) = 3
    /\ UzEvents(1)[1].pct = Pct(0, 3)
    /\ UzEvents(1)[3].pct = Pct(2, 3)

\* what the step of invocation i that emits a download-progress event does
\* to everything but the event log
AfterDownloadEmit(i) ==
    LET chunk == Head(dl[i].stream)
    IN /\ pc[i] = "dl_loop" /\ dl[i].stream # <<>>
       /\ pc' = pc /\ uz' = uz
       /\ fs' = WriteTemp(fs, dl[i], i, chunk)
       /\ dl' = [dl EXCEPT ![i].downloaded = @ + Len(chunk),
                           ![i].pos = @ + Len(chunk),
                           ![i].stream = Tail(@)]

\* what the step of invocation i that emits an unzip-progress event does to
\* everything but the event log
AfterUnzipEmit(i) ==
    LET file == EntryTable[uz[i].archive[uz[i].i + 1]]
    IN /\ pc[i] \in {"uz_entry", "uz_write"}
       /\ pc' = [pc EXCEPT ![i] = "uz_entry"] /\ dl' = dl
       /\ uz' = [uz EXCEPT ![i].i = @ + 1]
       /\ fs' = IF pc[i] = "uz_write"
                THEN CreateFile(fs, uz[i].outpath, file.data, i).fs
                ELSE CreateDirAll(fs, args[i].target \o enclosed_name(file.name).path, i).fs

\* C18: a failed emit is never fatal and changes nothing but the event's
\* own delivery: a step that emits a progress event returns nothing, and its
\* effect on the filesystem and on the state of download_file and
\* unzip_file, as well as the payload, is the same function of the state
\* before the step whether the emit call succeeded or failed.
C18_EmitOutcomeIrrelevant ==
    [][\A i \in Inv :
         Len(emits'[i]) > Len(emits[i]) =>
            LET e == emits'[i][Len(emits'[i])]
            IN /\ emits'[i] = Append(emits[i], e)
               /\ e.ok \in EmitOutcomes
               /\ result' = result /\ calls' = calls
               /\ IF e.ev = "download-progress"
                  THEN /\ AfterDownloadEmit(i)
                       /\ e.pct = DlProgress(dl'[i].downloaded, dl[i].total_size)
                  ELSE /\ e.ev = "unzip-progress"
                       /\ AfterUnzipEmit(i)
                       /\ e.pct = UzProgress(uz[i].i, uz[i].total_files)]_vars

\* with the event channel down, every emit of an invocation failed, both
\* during its download and during its extraction, and it returned success
\* with the archive extracted
C18_Witness ==
    \E i \in Inv :
        /\ Cmd(i) /\ chan = "down" /\ result[i].tag = "ok"
        /\ DlEvents(i) # <<>> /\ UzEvents(i) # <<>>
        /\ \A e \in Range(emits[i]) : ~e.ok
        /\ uz[i].total_files >= 2 /\ TargetHolds(i)
        /\ ~Exists(fs, uz[i].file_path)

\* `bytes` is a zip container
ValidZip(bytes) ==
    /\ bytes # <<>>
    /\ \A k \in 1..(Len(bytes) - 1) : bytes[k] \in EntryIds
    /\ bytes = ZipBytes(SubSeq(bytes, 1, Len(bytes) - 1))

\* C19: if the file given to unzip_file is there but is not a valid zip
\* container, unzip_file fails, and when it fails with the archive-format
\* error the target has been replaced: it exists as a directory made by
\* this call, is empty, and nothing that was in it before is left.
C19_BadArchiveEmptiesTarget ==
    (/\ args[1].top = "unzip_file" /\ pc[1] = "done"
     /\ IsFile(fs0, args[1].file_path)
     /\ ~ValidZip(fs0[args[1].file_path].data)) =>
        /\ result[1].tag = "err"
        /\ result[1].msg \in {"Failed to open temp file", "Failed to remove target directory",
                              "Failed to create target directory", "Failed to read zip archive"}
        /\ result[1].msg = "Failed to read zip archive" =>
              /\ IsDir(fs, args[1].target)
              /\ fs[args[1].target].by = 1
              /\ Below(fs, args[1].target) = {args[1].target}
              /\ \A p \in Below(fs0, args[1].target) :
                    p # args[1].target => ~Exists(fs, p)

\* unzip_file was given a file that is no zip container and a target
\* holding files and a subdirectory: it returned the archive-format error
\* and the target is an empty directory
C19_Witness ==
    /\ args[1].top = "unzip_file"
    /\ result[1] = Err("Failed to read zip archive")
    /\ IsFile(fs0, args[1].file_path) /\ fs0[args[1].file_path].data # <<>>
    /\ Exists(fs0, args[1].target \o <<"sub", "b">>)
    /\ Below(fs, args[1].target) = {args[1].target}

\* C20: unzip_file opens the archive file before it touches the target: up
\* to and including File::open nothing on disk changes, a missing input
\* file makes the call fail at the open, and when the open fails the call
\* returns an error with the target directory and all its contents exactly
\* as they were (not removed, not created).
C20_OpenFailureLeavesTarget ==
    args[1].top = "unzip_file" =>
        /\ pc[1] \in {"idle", "uz_open"} => fs = fs0
        /\ (pc[1] = "done" /\ ~IsFile(fs0, args[1].file_path)) =>
              result[1] = Err("Failed to open temp file")
        /\ result[1] = Err("Failed to open temp file") =>
              /\ SameBelow(fs, fs0, args[1].target)
              /\ Exists(fs, args[1].target) <=> Exists(fs0, args[1].target)
              /\ fs = fs0

\* unzip_file was given a path where no file is and a target holding files
\* and a subdirectory: it returned the open error and the target is as before
C20_Witness ==
    /\ args[1].top = "unzip_file"
    /\ result[1] = Err("Failed to open temp file")
    /\ ~Exists(fs0, args[1].file_path)
    /\ Exists(fs0, args[1].target \o <<"sub", "b">>)
    /\ SameBelow(fs, fs0, args[1].target)

====
